---- MODULE Spec2Model ----
(***************************************************************************)
(* Model of biofrost.analysis.alignment.expectation_maximization, the EM   *)
(* abundance estimator for multi-mapped reads.                             *)
(*                                                                         *)
(* One call of the function is one behaviour: Init draws the arguments,    *)
(* the actions are the consecutive blocks of the function body.            *)
(*                                                                         *)
(* float64 values are modelled as exact rationals <<num, den>> in lowest   *)
(* terms with den > 0, extended with the IEEE special values the pandas    *)
(* arithmetic produces without raising: NaN = <<0,0>>, +Inf = <<1,0>>,     *)
(* -Inf = <<-1,0>>.  A pandas Series is a function from its index to       *)
(* such values; Series.sum() skips NaN, as pandas does by default.         *)
(***************************************************************************)
EXTENDS Integers, Sequences, FiniteSets

\* ------------------------------------------------------------------------
\* Bounds of the explored inputs
\* ------------------------------------------------------------------------
MaxRows == 4

Reads == {1, 2, 3}

Genes == {1, 2, 3}

\* ------------------------------------------------------------------------
\* float64 arithmetic
\* ------------------------------------------------------------------------
NaN == <<0, 0>>

Zero == <<0, 1>>

One == <<1, 1>>

Abs(x) == IF x < 0 THEN -x ELSE x

Sign(x) == IF x < 0 THEN -1 ELSE IF x > 0 THEN 1 ELSE 0

RECURSIVE GCD(_, _)
GCD(a, b) == IF b = 0 THEN a ELSE GCD(b, a % b)

Norm(n, d) ==
    IF d = 0 THEN <<Sign(n), 0>>
    ELSE LET s == IF d < 0 THEN -1 ELSE 1
             k == GCD(Abs(n), Abs(d))
         IN  <<(s * n) \div k, (s * d) \div k>>

Float(n) == <<n, 1>>

IsNaN(a) == a = NaN

RAdd(a, b) ==
    IF a[2] = 0 /\ b[2] = 0
    THEN (IF a[1] = b[1] THEN a ELSE NaN)
    ELSE Norm(a[1] * b[2] + b[1] * a[2], a[2] * b[2])

RNeg(a) == <<-a[1], a[2]>>

RSub(a, b) == RAdd(a, RNeg(b))

RMul(a, b) == Norm(a[1] * b[1], a[2] * b[2])

RDiv(a, b) == Norm(a[1] * b[2], a[2] * b[1])

RAbs(a) == <<Abs(a[1]), a[2]>>

RLt(a, b) ==
    /\ ~IsNaN(a)
    /\ ~IsNaN(b)
    /\ IF a[2] = 0 /\ b[2] = 0 THEN a[1] < b[1]
       ELSE a[1] * b[2] < b[1] * a[2]

RLe(a, b) ==
    /\ ~IsNaN(a)
    /\ ~IsNaN(b)
    /\ IF a[2] = 0 /\ b[2] = 0 THEN a[1] <= b[1]
       ELSE a[1] * b[2] <= b[1] * a[2]

\* ------------------------------------------------------------------------
\* pandas Series helpers
\* ------------------------------------------------------------------------
EmptySeries == [k \in {} |-> NaN]

RECURSIVE SumOver(_, _)
SumOver(s, K) ==
    IF K = {} THEN Zero
    ELSE LET k == CHOOSE x \in K : TRUE
         IN  RAdd(IF IsNaN(s[k]) THEN Zero ELSE s[k], SumOver(s, K \ {k}))

\* Series.sum(): NaN entries are skipped, the empty sum is 0.0
SeriesSum(s) == SumOver(s, DOMAIN s)

\* Series.reindex(idx): labels missing from the series become NaN
Reindex(s, idx) == [k \in idx |-> IF k \in DOMAIN s THEN s[k] ELSE NaN]

FillNa(s, v) == [k \in DOMAIN s |-> IF IsNaN(s[k]) THEN v ELSE s[k]]

\* Series / scalar, Series * scalar
SeriesDiv(s, x) == [k \in DOMAIN s |-> RDiv(s[k], x)]

SeriesMul(s, x) == [k \in DOMAIN s |-> RMul(s[k], x)]

\* Series + Series and Series - Series align on the union of the indexes
SeriesAdd(s, t) ==
    [k \in DOMAIN s \cup DOMAIN t |->
        IF k \in DOMAIN s /\ k \in DOMAIN t THEN RAdd(s[k], t[k]) ELSE NaN]

SeriesSub(s, t) ==
    [k \in DOMAIN s \cup DOMAIN t |->
        IF k \in DOMAIN s /\ k \in DOMAIN t THEN RSub(s[k], t[k]) ELSE NaN]

SeriesAbs(s) == [k \in DOMAIN s |-> RAbs(s[k])]

\* ------------------------------------------------------------------------
\* Blocks of expectation_maximization, as operators
\* ------------------------------------------------------------------------
\* np.unique(classifications): the distinct categories
Unique(cl) == {cl[i] : i \in DOMAIN cl}

\* np.zeros(g.shape) + 1/g.shape[0], indexed by g
UniformAbundance(gs) ==
    [k \in gs |-> RAdd(Zero, RDiv(One, Float(Cardinality(gs))))]

\* drop_duplicates() forgotten: every row is kept
DropDuplicatesKeepAll(rd, cl) == DOMAIN rd

\* DataFrame({"Read", "Gene"}).drop_duplicates(): the row labels kept
\* (the first occurrence of every (Read, Gene) pair keeps its label)
DropDuplicates(rd, cl) ==
    {i \in DOMAIN rd :
        \A j \in 1..(i - 1) : <<rd[j], cl[j]>> # <<rd[i], cl[i]>>}

\* df.groupby("Read").apply(lambda x: x.shape[0])
Hits(rd, df) ==
    [r \in {rd[i] : i \in df} |-> Cardinality({i \in df : rd[i] = r})]

\* hits[hits == 1].index
UniqueReads(rd, df) ==
    {r \in DOMAIN Hits(rd, df) : Hits(rd, df)[r] = 1}

\* Counter(df.loc[df['Read'].isin(unique_reads)]['Gene']) as a float Series
GeneCounter(rd, cl, df) ==
    LET rows == {i \in df : rd[i] \in UniqueReads(rd, df)}
    IN  [c \in {cl[i] : i \in rows} |->
            Float(Cardinality({i \in rows : cl[i] = c}))]

\* unique_genes.reindex(g).fillna(0)
UniqueGenes(rd, cl, df, gs) == FillNa(Reindex(GeneCounter(rd, cl, df), gs), Zero)

\* df.loc[~df['Read'].isin(unique_reads)]: the row labels of ambiguous reads
AmbiguousRows(rd, df) == {i \in df : rd[i] \notin UniqueReads(rd, df)}

\* ambiguous_reads.groupby(ambiguous_reads.index): one group per row label
ByRead(rows) == [i \in rows |-> {j \in rows : j = i}]

\* ambiguous_reads.groupby('Gene')
ByGene(cl, rows) == [c \in {cl[i] : i \in rows} |-> {i \in rows : cl[i] = c}]

\* the weight of all ambiguous rows taken as one group
GroupWeightOfAll(a, cl, rows) ==
    [i \in rows |-> SeriesSum([j \in rows |-> a[cl[j]]])]

\* p = by_read.apply(lambda x: a_i[x['Gene']].sum())
GroupWeight(a, cl, rows) ==
    [i \in rows |-> SeriesSum([j \in ByRead(rows)[i] |-> a[cl[j]]])]

\* n_j = by_gene.apply(lambda x: (a_i[x.name] / p[x.index]).sum())
Expectation(a, cl, rows) ==
    LET p == GroupWeight(a, cl, rows)
    IN  [c \in DOMAIN ByGene(cl, rows) |->
            SeriesSum([i \in ByGene(cl, rows)[c] |-> RDiv(a[c], p[i])])]

\* the M-step with the unique-read term left out
MaximizationNoUnique(n_j, ug, gs, na, nu) ==
    LET a0 == FillNa(Reindex(n_j, gs), Zero)
        a1 == SeriesDiv(SeriesMul(SeriesDiv(a0, SeriesSum(a0)), Float(na)),
                        Float(na + nu))
    IN  SeriesDiv(a1, SeriesSum(a1))

\* lines 54-56: combine the ambiguous and the unique mass and renormalise
Maximization(n_j, ug, gs, na, nu) ==
    LET a0 == FillNa(Reindex(n_j, gs), Zero)
        a1 == SeriesDiv(
                 SeriesAdd(
                    SeriesMul(SeriesDiv(a0, SeriesSum(a0)), Float(na)),
                    SeriesMul(SeriesDiv(ug, SeriesSum(ug)), Float(nu))),
                 Float(na + nu))
    IN  SeriesDiv(a1, SeriesSum(a1))

\* de-noising that drops the entries below the threshold instead of zeroing them
DeNoiseDrop(a, thr) ==
    LET z == [k \in {x \in DOMAIN a : ~RLt(a[x], thr)} |-> a[k]]
    IN  SeriesDiv(z, SeriesSum(z))

\* de-noising without the second renormalisation
DeNoiseNoRenormalize(a, thr) ==
    [k \in DOMAIN a |-> IF RLt(a[k], thr) THEN Zero ELSE a[k]]

\* lines 59-60: zero the entries below the threshold and renormalise
DeNoise(a, thr) ==
    LET z == [k \in DOMAIN a |-> IF RLt(a[k], thr) THEN Zero ELSE a[k]]
    IN  SeriesDiv(z, SeriesSum(z))

\* line 59 alone, a_j[a_j < noise_threshold] = 0: an item assignment, which
\* writes into the object a_j is bound to
SetBelowToZero(a, thr) == [k \in DOMAIN a |-> IF RLt(a[k], thr) THEN Zero ELSE a[k]]

\* an assignment statement writing into the object its target was bound to
RebindInPlace(bound, fresh) == bound

\* an assignment statement `name = expression` (lines 23, 54-56, 60): the name
\* is bound to the object the expression produced, whatever it was bound to
Rebind(bound, fresh) == fresh

\* the value a name bound to object ref shows after a sequence of writes
\* <<object, value>>, when it showed v before them
Seen(ref, v, writes) ==
    LET hit == {k \in DOMAIN writes : writes[k][1] = ref}
    IN  IF hit = {} THEN v
        ELSE writes[CHOOSE k \in hit : \A m \in hit : m <= k][2]

\* one pass of the loop body, lines 50-60
EMUpdate(a, cl, rows, ug, gs, na, nu, thr) ==
    DeNoise(Maximization(Expectation(a, cl, rows), ug, gs, na, nu), thr)

\* the difference summed without abs()
DeltaSigned(aj, ai) == SeriesSum(SeriesSub(aj, ai))

\* delta = (a_j - a_i).abs().sum()
Delta(aj, ai) == SeriesSum(SeriesAbs(SeriesSub(aj, ai)))

RECURSIVE Digits(_)
Digits(k) == IF k < 10 THEN 1 ELSE 1 + Digits(k \div 10)

\* len(str(int(1/delta))) for a finite delta > 0
InvDigits(d) == Digits(d[2] \div d[1])

\* int(max_iter/100)
PrintEvery(mi) == mi \div 100

\* n_ambiguous counted in rows instead of reads
NAmbiguousRows(rd, amb) == Cardinality(amb)

\* ambiguous_reads['Read'].unique().shape[0]
NAmbiguous(rd, amb) == Cardinality({rd[i] : i \in amb})

\* unique_reads.shape[0]
NUnique(rd, df) == Cardinality(UniqueReads(rd, df))

\* The loop of lines 48-79 as a function of the vector a the pass starts from
\* and of n_step: the pair returned, or the exception raised.  c holds the
\* values the loop only reads.
RECURSIVE EMLoop(_, _, _)
EMLoop(c, a, n) ==
    LET aj == EMUpdate(a, c.cl, c.rows, c.ug, c.gs, c.na, c.nu, c.thr)
        dl == Delta(aj, a)
    IN  IF RLe(dl, c.md) \/ n >= c.mi
        THEN [outcome |-> "returned", abundance |-> aj, steps |-> n]
        ELSE IF dl[1] = 0
        THEN [outcome |-> IF IsNaN(dl) THEN "ValueError" ELSE "OverflowError",
              abundance |-> EmptySeries, steps |-> 0]
        ELSE IF c.vb /\ PrintEvery(c.mi) = 0
        THEN [outcome |-> "ZeroDivisionError", abundance |-> EmptySeries, steps |-> 0]
        ELSE EMLoop(c, aj, n + 1)

\* The whole call, lines 22-79, as a function of its arguments
ExpectationMaximization(rd, cl, thr, mi, md, vb) ==
    LET gs == Unique(cl)
        d == DropDuplicates(rd, cl)
        ug == UniqueGenes(rd, cl, d, gs)
        amb == AmbiguousRows(rd, d)
    IN  IF Cardinality(gs) = 0
        THEN [outcome |-> "ZeroDivisionError", abundance |-> EmptySeries, steps |-> 0]
        ELSE IF Cardinality(amb) = 0
        THEN [outcome |-> "returned", abundance |-> ug, steps |-> 1]
        ELSE EMLoop([cl |-> cl, rows |-> amb, ug |-> ug, gs |-> gs,
                     na |-> NAmbiguous(rd, amb), nu |-> NUnique(rd, d),
                     thr |-> thr, mi |-> mi, md |-> md, vb |-> vb],
                    UniformAbundance(gs), 0)

\* ------------------------------------------------------------------------
\* One call of expectation_maximization as a state machine
\* ------------------------------------------------------------------------
VARIABLES
    reads, classifications,      \* the caller's arrays
    noise_threshold, max_iter, max_delta, verbose,
    pc,                          \* position in the function body
    g, a_i, df, unique_genes, ambiguous_reads, n_ambiguous, n_unique,
    n_step, d_i, trace, a_j, delta,
    outcome,                     \* "running", "returned" or the exception raised
    abundance, steps,            \* the returned pair
    updates,                     \* number of passes of lines 50-60 so far
    printed,                     \* number of progress lines written
    a_i_ref, a_j_ref,            \* the Series objects a_i and a_j are bound to
    n_objects                    \* number of Series objects bound so far

em_vars == <<reads, classifications, noise_threshold, max_iter, max_delta, verbose,
             pc, g, a_i, df, unique_genes, ambiguous_reads, n_ambiguous, n_unique,
             n_step, d_i, trace, a_j, delta, outcome, abundance, steps, updates,
             printed, a_i_ref, a_j_ref, n_objects>>

\* batch_yield_paf: the file, the generator's locals and what it yielded so far
VARIABLES paf_file, paf_pos, read_id, chunk, paf_yielded, paf_pc

paf_vars == <<paf_file, paf_pos, read_id, chunk, paf_yielded, paf_pc>>

\* grouper: the arguments, the shared iterator's position, the slots of
\* zip_longest that ran dry, and the tuples produced so far
VARIABLES grouper_iterable, grouper_n, grouper_fillvalue, grouper_pos,
          grouper_dry, grouper_out, grouper_pc

grouper_vars == <<grouper_iterable, grouper_n, grouper_fillvalue, grouper_pos,
                  grouper_dry, grouper_out, grouper_pc>>

\* cluster_positions: the arguments and the locals
VARIABLES cluster_x, cluster_gap, x_sorted, cluster_i, clustered, cluster_pc

cluster_vars == <<cluster_x, cluster_gap, x_sorted, cluster_i, clustered, cluster_pc>>

\* TaxonDB.fetch_taxon_path: the two tables of the database, the arguments,
\* the generator's locals, what it yielded so far and how it ended
VARIABLES taxon_nodes, taxon_names, taxon_tax_id, taxon_name_class,
          taxon_use_uniq, taxon_paths, taxon_pos, taxon_yielded, taxon_pc

taxon_vars == <<taxon_nodes, taxon_names, taxon_tax_id, taxon_name_class,
                taxon_use_uniq, taxon_paths, taxon_pos, taxon_yielded, taxon_pc>>

\* merge_intervals: the arguments and the locals
VARIABLES merge_blocks, merge_gap, merge_tmp, merge_pos, last_st, last_en,
          merged, merge_pc

merge_vars == <<merge_blocks, merge_gap, merge_tmp, merge_pos, last_st, last_en,
                merged, merge_pc>>

\* load_centrifuge / load_diamond2 with use_EM = False: the merged table (its
\* readID column and its column of the chosen rank), lvl_df, the counter, the
\* position of the loop of lines 399-400, the dict and the returned Series
VARIABLES load_df, lvl_df, n_hits, load_pos, load_abundance, load_result, load_pc

load_vars == <<load_df, lvl_df, n_hits, load_pos, load_abundance, load_result,
               load_pc>>

vars == <<em_vars, paf_vars, grouper_vars, cluster_vars, taxon_vars, merge_vars,
          load_vars>>

\* the variables a call of expectation_maximization does not touch, and the
\* same for the other functions
not_em ==
    <<paf_vars, grouper_vars, cluster_vars, taxon_vars, merge_vars, load_vars>>

not_paf ==
    <<em_vars, grouper_vars, cluster_vars, taxon_vars, merge_vars, load_vars>>

not_grouper ==
    <<em_vars, paf_vars, cluster_vars, taxon_vars, merge_vars, load_vars>>

not_cluster ==
    <<em_vars, paf_vars, grouper_vars, taxon_vars, merge_vars, load_vars>>

not_taxon ==
    <<em_vars, paf_vars, grouper_vars, cluster_vars, merge_vars, load_vars>>

not_merge ==
    <<em_vars, paf_vars, grouper_vars, cluster_vars, taxon_vars, load_vars>>

not_load ==
    <<em_vars, paf_vars, grouper_vars, cluster_vars, taxon_vars, merge_vars>>

\* the parts of the model that a specification does not exercise stay put
PafIdle ==
    /\ paf_file = <<>>
    /\ paf_pos = 0
    /\ read_id = "None"
    /\ chunk = <<>>
    /\ paf_yielded = <<>>
    /\ paf_pc = "idle"

GrouperIdle ==
    /\ grouper_iterable = <<>>
    /\ grouper_n = 0
    /\ grouper_fillvalue = "None"
    /\ grouper_pos = 0
    /\ grouper_dry = {}
    /\ grouper_out = <<>>
    /\ grouper_pc = "idle"

ClusterIdle ==
    /\ cluster_x = <<>>
    /\ cluster_gap = 0
    /\ x_sorted = <<>>
    /\ cluster_i = 0
    /\ clustered = <<>>
    /\ cluster_pc = "idle"

TaxonIdle ==
    /\ taxon_nodes = <<>>
    /\ taxon_names = <<>>
    /\ taxon_tax_id = 0
    /\ taxon_name_class = "idle"
    /\ taxon_use_uniq = FALSE
    /\ taxon_paths = <<>>
    /\ taxon_pos = 0
    /\ taxon_yielded = <<>>
    /\ taxon_pc = "idle"

MergeIdle ==
    /\ merge_blocks = <<>>
    /\ merge_gap = 0
    /\ merge_tmp = <<>>
    /\ merge_pos = 0
    /\ last_st = 0
    /\ last_en = 0
    /\ merged = <<>>
    /\ merge_pc = "idle"

LoadIdle ==
    /\ load_df = <<>>
    /\ lvl_df = <<>>
    /\ n_hits = <<>>
    /\ load_pos = 0
    /\ load_abundance = <<>>
    /\ load_result = <<>>
    /\ load_pc = "idle"

args == <<reads, classifications, noise_threshold, max_iter, max_delta, verbose>>

\* Rows of the input, listed in non-decreasing (read, category) order: every
\* multiset of at most MaxRows rows over Reads x Genes is one input.
RowLe(x, y) == x[1] < y[1] \/ (x[1] = y[1] /\ x[2] <= y[2])

Inputs ==
    {rows \in UNION {[1..n -> Reads \X Genes] : n \in 0..MaxRows} :
        \A i \in 1..(Len(rows) - 1) : RowLe(rows[i], rows[i + 1])}

NoiseChoices == {<<-1, 4>>, Zero, <<1, 4>>, <<3, 5>>}

MaxIterChoices == {0, 1, 2, 1000}

MaxDeltaChoices == {<<1, 100>>, <<2, 1>>}

Init ==
    /\ \E rows \in Inputs :
          /\ reads = [i \in DOMAIN rows |-> rows[i][1]]
          /\ classifications = [i \in DOMAIN rows |-> rows[i][2]]
    /\ noise_threshold \in NoiseChoices
    /\ max_iter \in MaxIterChoices
    /\ max_delta \in MaxDeltaChoices
    /\ verbose \in BOOLEAN
    /\ pc = "categories"
    /\ g = {}
    /\ a_i = EmptySeries
    /\ df = {}
    /\ unique_genes = EmptySeries
    /\ ambiguous_reads = {}
    /\ n_ambiguous = 0
    /\ n_unique = 0
    /\ n_step = 0
    /\ d_i = 0
    /\ trace = <<>>
    /\ a_j = EmptySeries
    /\ delta = Zero
    /\ outcome = "running"
    /\ abundance = EmptySeries
    /\ steps = 0
    /\ updates = 0
    /\ printed = 0
    /\ a_i_ref = 0
    /\ a_j_ref = 0
    /\ n_objects = 0
    /\ PafIdle
    /\ GrouperIdle
    /\ ClusterIdle
    /\ TaxonIdle
    /\ MergeIdle
    /\ LoadIdle

\* lines 22-23: the category universe and the uniform start vector; 1/g.shape[0]
\* is a Python division and raises ZeroDivisionError for an empty input
Categories ==
    /\ pc = "categories"
    /\ g' = Unique(classifications)
    /\ IF Cardinality(Unique(classifications)) = 0
       THEN /\ outcome' = "ZeroDivisionError"
            /\ pc' = "done"
            /\ UNCHANGED <<a_i, a_i_ref, n_objects>>
       ELSE /\ a_i' = UniformAbundance(Unique(classifications))
            /\ a_i_ref' = Rebind(a_i_ref, n_objects + 1)
            /\ n_objects' = n_objects + 1
            /\ pc' = "partition"
            /\ outcome' = outcome
    /\ UNCHANGED not_em
    /\ UNCHANGED <<args, df, unique_genes, ambiguous_reads, n_ambiguous, n_unique,
                   n_step, d_i, trace, a_j, delta, abundance, steps, updates,
                   printed, a_j_ref>>

\* lines 25-47: deduplicate, separate the uniquely mapped reads, return the
\* unique counts when no read is ambiguous
Partition ==
    /\ pc = "partition"
    /\ LET d == DropDuplicates(reads, classifications)
           ug == UniqueGenes(reads, classifications, d, g)
           amb == AmbiguousRows(reads, d)
       IN  /\ df' = d
           /\ unique_genes' = ug
           /\ ambiguous_reads' = amb
           /\ IF Cardinality(amb) = 0
              THEN /\ abundance' = ug
                   /\ steps' = 1
                   /\ outcome' = "returned"
                   /\ pc' = "done"
                   /\ UNCHANGED <<n_ambiguous, n_unique>>
              ELSE /\ n_ambiguous' = NAmbiguous(reads, amb)
                   /\ n_unique' = NUnique(reads, d)
                   /\ pc' = "update"
                   /\ UNCHANGED <<abundance, steps, outcome>>
    /\ n_step' = 0
    /\ d_i' = 0
    /\ trace' = <<>>
    /\ UNCHANGED not_em
    /\ UNCHANGED <<args, g, a_i, a_j, delta, updates, printed, a_i_ref, a_j_ref,
                   n_objects>>

\* lines 49-60: expectation, maximization, de-noise.  Lines 54, 55, 56 and 60
\* bind a_j to the Series their right-hand sides produce; line 59 writes into
\* the Series of line 56.  a_i shows whatever was written last into the object
\* it is bound to (after line 72 that is the object a_j was bound to).
Update ==
    /\ pc = "update"
    /\ LET n_j == Expectation(a_i, classifications, ambiguous_reads)
           v54 == FillNa(Reindex(n_j, g), Zero)
           v56 == Maximization(n_j, unique_genes, g, n_ambiguous, n_unique)
           v59 == SetBelowToZero(v56, noise_threshold)
           v60 == EMUpdate(a_i, classifications, ambiguous_reads, unique_genes, g,
                           n_ambiguous, n_unique, noise_threshold)
           r54 == Rebind(a_j_ref, n_objects + 1)
           r55 == Rebind(r54, n_objects + 2)
           r56 == Rebind(r55, n_objects + 3)
           r60 == Rebind(r56, n_objects + 4)
       IN  /\ a_j' = v60
           /\ a_j_ref' = r60
           /\ a_i' = Seen(a_i_ref, a_i,
                          <<<<r54, v54>>, <<r56, v56>>, <<r56, v59>>, <<r60, v60>>>>)
    /\ n_objects' = n_objects + 4
    /\ updates' = updates + 1
    /\ pc' = "converge"
    /\ UNCHANGED not_em
    /\ UNCHANGED <<args, g, df, unique_genes, ambiguous_reads, n_ambiguous,
                   n_unique, n_step, d_i, trace, delta, outcome, abundance,
                   steps, printed, a_i_ref>>

\* lines 62-74: the stopping test, the progress line, the hand-over to the
\* next pass
Converge ==
    /\ pc = "converge"
    /\ LET dl == Delta(a_j, a_i)
       IN  /\ delta' = dl
           /\ IF RLe(dl, max_delta) \/ n_step >= max_iter
              THEN /\ pc' = "final"
                   /\ UNCHANGED <<outcome, d_i, a_i, a_i_ref, n_step, trace, printed>>
              ELSE IF dl[1] = 0
              THEN \* int(1/delta) of an infinite or undefined quotient
                   /\ outcome' = IF IsNaN(dl) THEN "ValueError" ELSE "OverflowError"
                   /\ pc' = "done"
                   /\ UNCHANGED <<d_i, a_i, a_i_ref, n_step, trace, printed>>
              ELSE IF verbose /\ PrintEvery(max_iter) = 0
              THEN \* n_step % int(max_iter/100) with a zero modulus
                   /\ outcome' = "ZeroDivisionError"
                   /\ pc' = "done"
                   /\ UNCHANGED <<d_i, a_i, a_i_ref, n_step, trace, printed>>
              ELSE /\ printed' =
                        IF verbose /\ (n_step % PrintEvery(max_iter) = 0
                                       \/ InvDigits(dl) > d_i)
                        THEN printed + 1 ELSE printed
                   /\ d_i' = InvDigits(dl)
                   /\ a_i' = a_j
                   /\ a_i_ref' = a_j_ref
                   /\ n_step' = n_step + 1
                   /\ trace' = Append(trace, dl)
                   /\ pc' = "update"
                   /\ outcome' = outcome
    /\ UNCHANGED not_em
    /\ UNCHANGED <<args, g, df, unique_genes, ambiguous_reads, n_ambiguous,
                   n_unique, a_j, abundance, steps, updates, a_j_ref, n_objects>>

\* lines 76-79
Return ==
    /\ pc = "final"
    /\ abundance' = a_j
    /\ steps' = n_step
    /\ outcome' = "returned"
    /\ pc' = "done"
    /\ UNCHANGED not_em
    /\ UNCHANGED <<args, g, a_i, df, unique_genes, ambiguous_reads, n_ambiguous,
                   n_unique, n_step, d_i, trace, a_j, delta, updates, printed,
                   a_i_ref, a_j_ref, n_objects>>

Next == Categories \/ Partition \/ Update \/ Converge \/ Return

Spec == Init /\ [][Next]_vars

EMIdle ==
    /\ reads = <<>>
    /\ classifications = <<>>
    /\ noise_threshold = Zero
    /\ max_iter = 0
    /\ max_delta = Zero
    /\ verbose = FALSE
    /\ pc = "idle"
    /\ g = {}
    /\ a_i = EmptySeries
    /\ df = {}
    /\ unique_genes = EmptySeries
    /\ ambiguous_reads = {}
    /\ n_ambiguous = 0
    /\ n_unique = 0
    /\ n_step = 0
    /\ d_i = 0
    /\ trace = <<>>
    /\ a_j = EmptySeries
    /\ delta = Zero
    /\ outcome = "idle"
    /\ abundance = EmptySeries
    /\ steps = 0
    /\ updates = 0
    /\ printed = 0
    /\ a_i_ref = 0
    /\ a_j_ref = 0
    /\ n_objects = 0

\* ------------------------------------------------------------------------
\* batch_yield_paf (parser/alignment.py)
\* ------------------------------------------------------------------------
MaxLines == 4

Queries == {"q1", "q2", "q3"}

\* yield_paf: one PAFParser per line; a line is modelled by its query name
\* (content[0]) and its line number, which stands for its other columns
YieldPaf(file) == [i \in DOMAIN file |-> [query |-> file[i], line |-> i]]

\* _convert_chunk: one DataFrame row per hit of the chunk, in order
ConvertChunk(hits) == [i \in DOMAIN hits |-> hits[i].line]

PafInit ==
    /\ paf_file \in UNION {[1..n -> Queries] : n \in 0..MaxLines}
    /\ paf_pos = 0
    /\ read_id = "None"
    /\ chunk = <<>>
    /\ paf_yielded = <<>>
    /\ paf_pc = "loop"
    /\ EMIdle
    /\ GrouperIdle
    /\ ClusterIdle
    /\ TaxonIdle
    /\ MergeIdle
    /\ LoadIdle

\* lines 200-207: one pass of the for loop over yield_paf(paf_file)
PafHit ==
    /\ paf_pc = "loop"
    /\ paf_pos < Len(paf_file)
    /\ LET hit == YieldPaf(paf_file)[paf_pos + 1]
       IN  IF hit.query # read_id
           THEN /\ paf_yielded' =
                     IF read_id # "None"
                     THEN Append(paf_yielded, <<read_id, ConvertChunk(chunk)>>)
                     ELSE paf_yielded
                /\ read_id' = hit.query
                /\ chunk' = <<hit>>
           ELSE /\ chunk' = Append(chunk, hit)
                /\ UNCHANGED <<read_id, paf_yielded>>
    /\ paf_pos' = paf_pos + 1
    /\ UNCHANGED <<paf_file, paf_pc>>
    /\ UNCHANGED not_paf

\* line 208: the yield after the loop
PafLast ==
    /\ paf_pc = "loop"
    /\ paf_pos = Len(paf_file)
    /\ paf_yielded' = Append(paf_yielded, <<read_id, ConvertChunk(chunk)>>)
    /\ paf_pc' = "done"
    /\ UNCHANGED <<paf_file, paf_pos, read_id, chunk>>
    /\ UNCHANGED not_paf

PafNext == PafHit \/ PafLast

SpecPaf == PafInit /\ [][PafNext]_vars

\* ------------------------------------------------------------------------
\* grouper (utils/iter.py)
\* ------------------------------------------------------------------------
MaxItems == 4

Items == {"A", "B"}

ChunkSizes == {0, 1, 2, 3}

FillValues == {"None", "x"}

\* One next() of zip_longest(*args, fillvalue=fill) where the n entries of args
\* are one and the same iterator over items, read up to pos: slot i takes the
\* fill value once it ran dry, otherwise the iterator's next item; the slot at
\* which the last active iterator runs dry ends the iteration and discards
\* the tuple.
RECURSIVE ZipLongestSlots(_, _, _, _, _, _, _)
ZipLongestSlots(items, fill, n, i, pos, dry, acc) ==
    IF i > n
    THEN [stop |-> FALSE, pos |-> pos, dry |-> dry, tuple |-> acc]
    ELSE IF i \in dry
    THEN ZipLongestSlots(items, fill, n, i + 1, pos, dry, Append(acc, fill))
    ELSE IF pos < Len(items)
    THEN ZipLongestSlots(items, fill, n, i + 1, pos + 1, dry,
                         Append(acc, items[pos + 1]))
    ELSE IF n - Cardinality(dry \cup {i}) = 0
    THEN [stop |-> TRUE, pos |-> pos, dry |-> dry \cup {i}, tuple |-> <<>>]
    ELSE ZipLongestSlots(items, fill, n, i + 1, pos, dry \cup {i},
                         Append(acc, fill))

ZipLongestNext(items, fill, n, pos, dry) ==
    IF n = 0 \/ n - Cardinality(dry) = 0
    THEN [stop |-> TRUE, pos |-> pos, dry |-> dry, tuple |-> <<>>]
    ELSE ZipLongestSlots(items, fill, n, 1, pos, dry, <<>>)

GrouperInit ==
    /\ grouper_iterable \in UNION {[1..k -> Items] : k \in 0..MaxItems}
    /\ grouper_n \in ChunkSizes
    /\ grouper_fillvalue \in FillValues
    /\ grouper_pos = 0
    /\ grouper_dry = {}
    /\ grouper_out = <<>>
    /\ grouper_pc = "call"
    /\ EMIdle
    /\ PafIdle
    /\ ClusterIdle
    /\ TaxonIdle
    /\ MergeIdle
    /\ LoadIdle

\* lines 23-25: n references to one iterator, handed to zip_longest
GrouperCall ==
    /\ grouper_pc = "call"
    /\ grouper_pos' = 0
    /\ grouper_dry' = {}
    /\ grouper_pc' = "iterate"
    /\ UNCHANGED <<grouper_iterable, grouper_n, grouper_fillvalue, grouper_out>>
    /\ UNCHANGED not_grouper

\* the caller takes the next tuple of the returned zip_longest, which line 25
\* built with fillvalue=None
GrouperNextTuple ==
    /\ grouper_pc = "iterate"
    /\ LET r == ZipLongestNext(grouper_iterable, "None", grouper_n, grouper_pos,
                               grouper_dry)
       IN  /\ grouper_pos' = r.pos
           /\ grouper_dry' = r.dry
           /\ IF r.stop
              THEN grouper_pc' = "done" /\ grouper_out' = grouper_out
              ELSE grouper_pc' = "iterate" /\ grouper_out' = Append(grouper_out, r.tuple)
    /\ UNCHANGED <<grouper_iterable, grouper_n, grouper_fillvalue>>
    /\ UNCHANGED not_grouper

GrouperNext == GrouperCall \/ GrouperNextTuple

SpecGrouper == GrouperInit /\ [][GrouperNext]_vars

\* ------------------------------------------------------------------------
\* cluster_positions (utils/intervals.py)
\* ------------------------------------------------------------------------
MaxPositions == 3

Positions == {1, 2, 3, 4}

Gaps == {0, 1, 2}

\* sorted(x) for a list of integers
RECURSIVE Sorted(_)
Sorted(x) ==
    IF x = <<>> THEN <<>>
    ELSE LET m == CHOOSE i \in DOMAIN x : \A j \in DOMAIN x : x[i] <= x[j]
             rest == [k \in 1..(Len(x) - 1) |-> IF k < m THEN x[k] ELSE x[k + 1]]
         IN  <<x[m]>> \o Sorted(rest)

\* line 24: does position i open a new interval after one ending at en
OpensInterval(i, en, gap) == i - en > gap

ClusterInit ==
    /\ cluster_x \in UNION {[1..k -> Positions] : k \in 0..MaxPositions}
    /\ cluster_gap \in Gaps
    /\ x_sorted = <<>>
    /\ cluster_i = 0
    /\ clustered = <<>>
    /\ cluster_pc = "call"
    /\ EMIdle
    /\ PafIdle
    /\ GrouperIdle
    /\ TaxonIdle
    /\ MergeIdle
    /\ LoadIdle

\* lines 19-22: the empty list returns at once, otherwise the first interval
ClusterStart ==
    /\ cluster_pc = "call"
    /\ IF Len(cluster_x) = 0
       THEN /\ cluster_pc' = "done"
            /\ UNCHANGED <<x_sorted, clustered, cluster_i>>
       ELSE /\ x_sorted' = Sorted(cluster_x)
            /\ clustered' = <<<<Sorted(cluster_x)[1], Sorted(cluster_x)[1]>>>>
            /\ cluster_i' = 1
            /\ cluster_pc' = "loop"
    /\ UNCHANGED <<cluster_x, cluster_gap>>
    /\ UNCHANGED not_cluster

\* lines 23-27: one pass of the loop over x_sorted[1:]
ClusterStep ==
    /\ cluster_pc = "loop"
    /\ cluster_i < Len(x_sorted)
    /\ LET i == x_sorted[cluster_i + 1]
           last == Len(clustered)
       IN  IF OpensInterval(i, clustered[last][2], cluster_gap)
           THEN clustered' = Append(clustered, <<i, i>>)
           ELSE clustered' = [clustered EXCEPT ![last][2] = i]
    /\ cluster_i' = cluster_i + 1
    /\ UNCHANGED <<cluster_x, cluster_gap, x_sorted, cluster_pc>>
    /\ UNCHANGED not_cluster

\* line 28
ClusterReturn ==
    /\ cluster_pc = "loop"
    /\ cluster_i = Len(x_sorted)
    /\ cluster_pc' = "done"
    /\ UNCHANGED <<cluster_x, cluster_gap, x_sorted, cluster_i, clustered>>
    /\ UNCHANGED not_cluster

ClusterNext == ClusterStart \/ ClusterStep \/ ClusterReturn

SpecCluster == ClusterInit /\ [][ClusterNext]_vars

\* ------------------------------------------------------------------------
\* TaxonDB.fetch_taxon_path (parser/taxonomy.py)
\* ------------------------------------------------------------------------
MaxTaxa == 3

\* a text is a tuple; the empty string
EmptyString == <<>>

\* the name classes the queries of the model ask for: one of the supported
\* classes of line 198, "taxonomy id", and a class line 221 rejects
NameClassChoices == {"scientific name", "taxonomy id", "kingdom name"}

\* line 198
SupportedNameClasses ==
    {"authority", "synonym", "blast name", "scientific name", "common name"}

\* Name(name_txt, unique_name)
Name(txt, uniq) == [name_txt |-> txt, unique_name |-> uniq]

\* the entries of taxon_names a node of the model can have (_init_names,
\* lines 137-143): name class -> non-empty list of names
NameDicts(k) ==
    {[c \in {"scientific name"} |-> <<Name(<<"txt", k>>, EmptyString)>>],
     [c \in {"scientific name"} |-> <<Name(<<"txt", k>>, <<"uniq", k>>)>>],
     [c \in {"scientific name"} |->
         <<Name(<<"txt", k>>, EmptyString), Name(<<"alt", k>>, <<"uniq", k>>)>>],
     [c \in {"synonym"} |-> <<Name(<<"syn", k>>, EmptyString)>>]}

\* the rank column of nodes.dmp
RankOf(k) == IF k = 1 THEN "no rank" ELSE IF k % 2 = 0 THEN "genus" ELSE "species"

\* the trees over 1..MaxTaxa rooted in tax_id 1, which is its own parent
NodeTables ==
    {[k \in 1..MaxTaxa |-> [parent_tax_id |-> par[k], rank |-> RankOf(k)]] :
        par \in {f \in [1..MaxTaxa -> 1..MaxTaxa] :
                    f[1] = 1 /\ \A k \in 2..MaxTaxa : f[k] < k}}

\* the name tables: some ids have no line in names.dmp
NameTables ==
    UNION {{t \in [ids -> UNION {NameDicts(k) : k \in ids}] :
               \A k \in ids : t[k] \in NameDicts(k)} : ids \in SUBSET (1..MaxTaxa)}

\* _backtrace_node, lines 145-158: the path from the root down to the node,
\* or KeyError when a node met on the way up has no entry in taxon_names
RECURSIVE BacktraceNode(_, _, _)
BacktraceNode(nodes, names, tax_id) ==
    IF tax_id \notin DOMAIN names
    THEN [raised |-> TRUE, path |-> <<>>]
    ELSE LET item == <<nodes[tax_id].rank, tax_id, names[tax_id]>>
         IN  IF tax_id = 1
             THEN [raised |-> FALSE, path |-> <<item>>]
             ELSE LET up == BacktraceNode(nodes, names, nodes[tax_id].parent_tax_id)
                  IN  IF up.raised THEN up
                      ELSE [raised |-> FALSE, path |-> Append(up.path, item)]

\* lines 205-210
CollectNames(name_list, use_uniq) ==
    [i \in DOMAIN name_list |->
        IF use_uniq /\ name_list[i].unique_name # EmptyString
        THEN name_list[i].unique_name
        ELSE name_list[i].name_txt]

\* lines 213-216
NameOrList(tmp_names) == IF Len(tmp_names) = 1 THEN tmp_names[1] ELSE tmp_names

TaxonInit ==
    /\ taxon_nodes \in NodeTables
    /\ taxon_names \in NameTables
    /\ taxon_tax_id \in 1..(MaxTaxa + 1)
    /\ taxon_name_class \in NameClassChoices
    /\ taxon_use_uniq \in BOOLEAN
    /\ taxon_paths = <<>>
    /\ taxon_pos = 0
    /\ taxon_yielded = <<>>
    /\ taxon_pc = "start"
    /\ EMIdle
    /\ PafIdle
    /\ GrouperIdle
    /\ ClusterIdle
    /\ MergeIdle
    /\ LoadIdle

\* lines 195-198, 217, 220-221: the generator's first resumption looks the
\* node up, walks to the root and selects the branch
TaxonBacktrace ==
    /\ taxon_pc = "start"
    /\ IF taxon_tax_id \notin DOMAIN taxon_nodes
       THEN /\ taxon_pc' = "KeyError"
            /\ UNCHANGED taxon_paths
       ELSE LET bt == BacktraceNode(taxon_nodes, taxon_names, taxon_tax_id)
            IN  IF bt.raised
                THEN /\ taxon_pc' = "KeyError"
                     /\ UNCHANGED taxon_paths
                ELSE /\ taxon_paths' = bt.path
                     /\ taxon_pc' =
                           IF taxon_name_class \in SupportedNameClasses THEN "names"
                           ELSE IF taxon_name_class = "taxonomy id" THEN "ids"
                           ELSE "KeyError"
    /\ UNCHANGED <<taxon_nodes, taxon_names, taxon_tax_id, taxon_name_class,
                   taxon_use_uniq, taxon_pos, taxon_yielded>>
    /\ UNCHANGED not_taxon

\* lines 199-216: the next node of the path, up to its yield.  For a node
\* without the name class the generator is suspended at line 202, inside the
\* same pass of the loop.
TaxonName ==
    /\ taxon_pc = "names"
    /\ taxon_pos < Len(taxon_paths)
    /\ LET p_lvl == taxon_paths[taxon_pos + 1][1]
           p_name == taxon_paths[taxon_pos + 1][3]
       IN  IF taxon_name_class \notin DOMAIN p_name
           THEN /\ taxon_yielded' = Append(taxon_yielded, <<p_lvl, EmptyString>>)
                /\ taxon_pc' = "line 202"
                /\ UNCHANGED taxon_pos
           ELSE /\ taxon_yielded' =
                     Append(taxon_yielded,
                            <<p_lvl, NameOrList(CollectNames(p_name[taxon_name_class],
                                                             taxon_use_uniq))>>)
                /\ taxon_pos' = taxon_pos + 1
                /\ UNCHANGED taxon_pc
    /\ UNCHANGED <<taxon_nodes, taxon_names, taxon_tax_id, taxon_name_class,
                   taxon_use_uniq, taxon_paths>>
    /\ UNCHANGED not_taxon

\* line 206 when the generator is resumed after the yield of line 202: there
\* is no continue, and p_name[name_class] on a plain dict raises KeyError
TaxonAfterEmptyName ==
    /\ taxon_pc = "line 202"
    /\ taxon_pc' = "KeyError"
    /\ UNCHANGED <<taxon_nodes, taxon_names, taxon_tax_id, taxon_name_class,
                   taxon_use_uniq, taxon_paths, taxon_pos, taxon_yielded>>
    /\ UNCHANGED not_taxon

\* lines 218-219
TaxonId ==
    /\ taxon_pc = "ids"
    /\ taxon_pos < Len(taxon_paths)
    /\ taxon_yielded' = Append(taxon_yielded,
                               <<taxon_paths[taxon_pos + 1][1],
                                 taxon_paths[taxon_pos + 1][2]>>)
    /\ taxon_pos' = taxon_pos + 1
    /\ UNCHANGED <<taxon_nodes, taxon_names, taxon_tax_id, taxon_name_class,
                   taxon_use_uniq, taxon_paths, taxon_pc>>
    /\ UNCHANGED not_taxon

\* the for loop of line 199 or 218 is over: the generator is exhausted
TaxonStop ==
    /\ taxon_pc \in {"names", "ids"}
    /\ taxon_pos = Len(taxon_paths)
    /\ taxon_pc' = "exhausted"
    /\ UNCHANGED <<taxon_nodes, taxon_names, taxon_tax_id, taxon_name_class,
                   taxon_use_uniq, taxon_paths, taxon_pos, taxon_yielded>>
    /\ UNCHANGED not_taxon

TaxonNext == TaxonBacktrace \/ TaxonName \/ TaxonAfterEmptyName \/ TaxonId \/ TaxonStop

SpecTaxon == TaxonInit /\ [][TaxonNext]_vars

\* ------------------------------------------------------------------------
\* merge_intervals (utils/intervals.py)
\* ------------------------------------------------------------------------
MaxBlocks == 3

BlockPositions == {1, 2, 3, 4}

\* the (start, end) pairs of the model, start <= end
Blocks == {b \in BlockPositions \X BlockPositions : b[1] <= b[2]}

MergeGaps == {0, 1, 2}

\* the order of itemgetter(0, 1): by start, then by end
BlockLt(x, y) == x[1] < y[1] \/ (x[1] = y[1] /\ x[2] < y[2])

\* the sort left out: the blocks are taken in the order given
SortBlocksAsGiven(blocks) == blocks

\* sorted(blocks, key=itemgetter(0, 1)), by insertion
RECURSIVE SortBlocks(_)
SortBlocks(blocks) ==
    IF blocks = <<>> THEN <<>>
    ELSE LET rest == SortBlocks(Tail(blocks))
             k == Cardinality({i \in DOMAIN rest : BlockLt(rest[i], Head(blocks))})
         IN  SubSeq(rest, 1, k) \o <<Head(blocks)>> \o SubSeq(rest, k + 1, Len(rest))

Max(a, b) == IF a >= b THEN a ELSE b

Min(a, b) == IF a <= b THEN a ELSE b

\* line 47
SameInterval(st, en_last, gap) == st <= en_last + gap

\* lines 45-54 as a function of the sorted blocks not yet visited, the open
\* interval and the intervals closed so far
RECURSIVE MergeLoop(_, _, _, _, _)
MergeLoop(rest, st_last, en_last, acc, gap) ==
    IF rest = <<>> THEN Append(acc, <<st_last, en_last>>)
    ELSE LET st == Head(rest)[1]
             en == Head(rest)[2]
         IN  IF SameInterval(st, en_last, gap)
             THEN MergeLoop(Tail(rest), Min(st, st_last), Max(en, en_last), acc, gap)
             ELSE MergeLoop(Tail(rest), st, en,
                            Append(acc, <<st_last, en_last>>), gap)

\* the whole call on a non-empty list, lines 42-54
MergeIntervals(blocks, gap) ==
    LET tmp == SortBlocks(blocks)
    IN  MergeLoop(Tail(tmp), tmp[1][1], tmp[1][2], <<>>, gap)

MergeInit ==
    /\ merge_blocks \in UNION {[1..n -> Blocks] : n \in 0..MaxBlocks}
    /\ merge_gap \in MergeGaps
    /\ merge_tmp = <<>>
    /\ merge_pos = 0
    /\ last_st = 0
    /\ last_en = 0
    /\ merged = <<>>
    /\ merge_pc = "start"
    /\ EMIdle
    /\ PafIdle
    /\ GrouperIdle
    /\ ClusterIdle
    /\ TaxonIdle
    /\ LoadIdle

\* lines 42-44: sort, open the first interval; tmp[0] of an empty list raises
\* IndexError
MergeStart ==
    /\ merge_pc = "start"
    /\ merge_tmp' = SortBlocks(merge_blocks)
    /\ IF Len(merge_blocks) = 0
       THEN /\ merge_pc' = "IndexError"
            /\ UNCHANGED <<last_st, last_en, merge_pos>>
       ELSE /\ last_st' = SortBlocks(merge_blocks)[1][1]
            /\ last_en' = SortBlocks(merge_blocks)[1][2]
            /\ merge_pos' = 1
            /\ merge_pc' = "loop"
    /\ UNCHANGED <<merge_blocks, merge_gap, merged>>
    /\ UNCHANGED not_merge

\* lines 45-52: one pass of the for loop over tmp[1:]
MergeStep ==
    /\ merge_pc = "loop"
    /\ merge_pos < Len(merge_tmp)
    /\ LET st == merge_tmp[merge_pos + 1][1]
           en == merge_tmp[merge_pos + 1][2]
       IN  IF SameInterval(st, last_en, merge_gap)
           THEN /\ last_en' = Max(en, last_en)
                /\ last_st' = Min(st, last_st)
                /\ UNCHANGED merged
           ELSE /\ merged' = Append(merged, <<last_st, last_en>>)
                /\ last_st' = st
                /\ last_en' = en
    /\ merge_pos' = merge_pos + 1
    /\ UNCHANGED <<merge_blocks, merge_gap, merge_tmp, merge_pc>>
    /\ UNCHANGED not_merge

\* lines 53-54
MergeReturn ==
    /\ merge_pc = "loop"
    /\ merge_pos = Len(merge_tmp)
    /\ merged' = Append(merged, <<last_st, last_en>>)
    /\ merge_pc' = "done"
    /\ UNCHANGED <<merge_blocks, merge_gap, merge_tmp, merge_pos, last_st, last_en>>
    /\ UNCHANGED not_merge

MergeNext == MergeStart \/ MergeStep \/ MergeReturn

SpecMerge == MergeInit /\ [][MergeNext]_vars

\* ------------------------------------------------------------------------
\* load_centrifuge / load_diamond2 without EM (parser/taxonomy.py)
\* ------------------------------------------------------------------------
MaxHits == 3

\* a taxon without the chosen rank on its path: NaN in the column lvl_name
NoLevel == 0

\* the rows <<readID, value of the column lvl_name>> of the merged table
HitRows == Reads \X (Genes \cup {NoLevel})

\* the rows of a table with the given labels, in the table's order
RECURSIVE RowsAt(_, _)
RowsAt(table, labels) ==
    IF table = <<>> THEN <<>>
    ELSE LET front == RowsAt(SubSeq(table, 1, Len(table) - 1), labels)
         IN  IF Len(table) \in labels THEN Append(front, table[Len(table)])
             ELSE front

\* df.loc[~df[lvl_name].isna()]
WithLevel(table) == RowsAt(table, {i \in DOMAIN table : table[i][2] # NoLevel})

\* lvl_df[['readID', lvl_name]].drop_duplicates()
DistinctPairs(table) ==
    RowsAt(table, DropDuplicates([i \in DOMAIN table |-> table[i][1]],
                                 [i \in DOMAIN table |-> table[i][2]]))

\* Counter(lvl_df['readID'])
ReadCounter(table) ==
    [r \in {table[i][1] : i \in DOMAIN table} |->
        Cardinality({i \in DOMAIN table : table[i][1] = r})]

\* abundance[c] += 1 / n_hits[r] on a defaultdict(int)
AddShare(dict, c, share) ==
    [k \in DOMAIN dict \cup {c} |->
        IF k = c THEN RAdd(IF c \in DOMAIN dict THEN dict[c] ELSE Zero, share)
        ELSE dict[k]]

\* sort_values(ascending=False): the Series as a list of <<index, value>> in
\* an order of non-increasing value (the order among equal values is left to
\* the sort)
DescendingOrders(dict) ==
    {order \in [1..Cardinality(DOMAIN dict) -> DOMAIN dict] :
        /\ \A i, j \in DOMAIN order : i # j => order[i] # order[j]
        /\ \A i \in 1..(Len(order) - 1) : RLe(dict[order[i + 1]], dict[order[i]])}

LoadInit ==
    /\ load_df \in UNION {[1..n -> HitRows] : n \in 0..MaxHits}
    /\ lvl_df = <<>>
    /\ n_hits = <<>>
    /\ load_pos = 0
    /\ load_abundance = <<>>
    /\ load_result = <<>>
    /\ load_pc = "level"
    /\ EMIdle
    /\ PafIdle
    /\ GrouperIdle
    /\ ClusterIdle
    /\ TaxonIdle
    /\ MergeIdle

\* lines 392-393 (433-434)
LoadLevel ==
    /\ load_pc = "level"
    /\ lvl_df' = DistinctPairs(WithLevel(load_df))
    /\ load_pc' = "count"
    /\ UNCHANGED <<load_df, n_hits, load_pos, load_abundance, load_result>>
    /\ UNCHANGED not_load

\* lines 397-398 (438-439)
LoadCount ==
    /\ load_pc = "count"
    /\ n_hits' = ReadCounter(lvl_df)
    /\ load_abundance' = <<>>
    /\ load_pos' = 0
    /\ load_pc' = "loop"
    /\ UNCHANGED <<load_df, lvl_df, load_result>>
    /\ UNCHANGED not_load

\* lines 399-400 (440-441): one pass of the for loop
LoadAdd ==
    /\ load_pc = "loop"
    /\ load_pos < Len(lvl_df)
    /\ LET r == lvl_df[load_pos + 1][1]
           c == lvl_df[load_pos + 1][2]
       IN  load_abundance' = AddShare(load_abundance, c, RDiv(One, Float(n_hits[r])))
    /\ load_pos' = load_pos + 1
    /\ UNCHANGED <<load_df, lvl_df, n_hits, load_result, load_pc>>
    /\ UNCHANGED not_load

\* lines 401-403 (442-443)
LoadSort ==
    /\ load_pc = "loop"
    /\ load_pos = Len(lvl_df)
    /\ \E order \in DescendingOrders(load_abundance) :
          load_result' = [i \in DOMAIN order |-> <<order[i], load_abundance[order[i]]>>]
    /\ load_pc' = "done"
    /\ UNCHANGED <<load_df, lvl_df, n_hits, load_pos, load_abundance>>
    /\ UNCHANGED not_load

LoadNext == LoadLevel \/ LoadCount \/ LoadAdd \/ LoadSort

SpecLoad == LoadInit /\ [][LoadNext]_vars

\* ------------------------------------------------------------------------
\* Vocabulary of the properties, stated on the caller's arrays
\* ------------------------------------------------------------------------
InputCategories == {classifications[i] : i \in DOMAIN classifications}

InputReads == {reads[i] : i \in DOMAIN reads}

CategoriesOf(r) == {classifications[i] : i \in {j \in DOMAIN reads : reads[j] = r}}

ReadsOf(c) == {reads[i] : i \in {j \in DOMAIN reads : classifications[j] = c}}

HasAmbiguousRead == \E r \in InputReads : Cardinality(CategoriesOf(r)) >= 2

HasUniqueRead == \E r \in InputReads : Cardinality(CategoriesOf(r)) = 1

HasRepeatedRow ==
    \E i, j \in DOMAIN reads :
        i # j /\ reads[i] = reads[j] /\ classifications[i] = classifications[j]

ValidParameters ==
    /\ RLe(Zero, noise_threshold)
    /\ RLt(noise_threshold, One)
    /\ max_iter >= 1
    /\ RLt(Zero, max_delta)

Returned == outcome = "returned"

NoNaN(s) == \A k \in DOMAIN s : ~IsNaN(s[k])

\* the vector the last pass computed before de-noising (a_i is the vector that
\* pass started from: it is replaced only when the loop goes on)
LastMaximization ==
    Maximization(Expectation(a_i, classifications, ambiguous_reads),
                 unique_genes, g, n_ambiguous, n_unique)

\* the ambiguous-read masses n[g] of the last pass
LastExpectation ==
    FillNa(Reindex(Expectation(a_i, classifications, ambiguous_reads), g), Zero)

\* every category fell below the threshold in the last pass
DeNoiseCollapsed ==
    /\ NoNaN(LastMaximization)
    /\ \A k \in DOMAIN LastMaximization : RLt(LastMaximization[k], noise_threshold)

\* ------------------------------------------------------------------------
\* Properties
\* ------------------------------------------------------------------------
\* C1: a call on a non-empty input with at least one ambiguous read and valid
\* parameters returns a vector without NaN whose values sum to 1, also when
\* no read is unique.
C1_NormalizedResult ==
    (Returned /\ Len(reads) > 0 /\ HasAmbiguousRead /\ ValidParameters)
        => (NoNaN(abundance) /\ SeriesSum(abundance) = One)

\* C2: whenever the call returns, on the short-circuit and on the EM path, the
\* keys of the returned vector are exactly the distinct categories of the input.
C2_KeysAreCategories == Returned => DOMAIN abundance = InputCategories

C2_Witness ==
    /\ Returned
    /\ HasAmbiguousRead
    /\ \E k \in DOMAIN abundance : abundance[k] = Zero
    /\ \E k \in DOMAIN abundance : RLt(Zero, abundance[k])

\* C3: on a non-empty input in which every read has exactly one distinct
\* category the call returns without a pass of the loop, with iteration count 1
\* and, for every category, the number of reads assigned to it, whatever the
\* parameters are.
C3_ShortCircuit ==
    (pc = "done" /\ Len(reads) > 0 /\ ~HasAmbiguousRead)
        => /\ Returned
           /\ steps = 1
           /\ updates = 0
           /\ DOMAIN abundance = InputCategories
           /\ \A c \in InputCategories :
                 abundance[c] = Float(Cardinality(ReadsOf(c)))
           /\ SeriesSum(abundance) = Float(Cardinality(InputReads))

C3_Witness ==
    /\ pc = "done"
    /\ Returned
    /\ ~HasAmbiguousRead
    /\ HasRepeatedRow
    /\ Cardinality(InputReads) >= 2
    /\ Cardinality(InputCategories) >= 2
    /\ ~ValidParameters
    /\ verbose

\* C4: on the EM path with valid parameters, a run in which no delta ever was
\* <= max_delta ends by returning, with iteration count max_iter; and every
\* returned iteration count is at most max_iter.
C4_BudgetExhausted ==
    /\ (pc = "done" /\ updates >= 1 /\ ValidParameters /\ ~RLe(delta, max_delta))
          => (Returned /\ steps = max_iter)
    /\ (Returned /\ updates >= 1 /\ ValidParameters) => steps <= max_iter

\* C5: on the EM path the returned iteration count is the number of passes of
\* the E-step/M-step that the call performed.
C5_StepsCountUpdates ==
    (Returned /\ updates >= 1 /\ ValidParameters /\ NoNaN(abundance))
        => steps = updates

\* C6: when de-noising zeroes every category, so that the renormalisation
\* divides by zero, the call ends in DegenerateDistribution and returns no
\* vector with NaN entries.
C6_DegenerateDeNoise ==
    (pc = "done" /\ updates >= 1 /\ ValidParameters /\ DeNoiseCollapsed)
        => (outcome = "DegenerateDistribution" /\ NoNaN(abundance))

\* C7: with ambiguous reads but no unique read, no NaN enters the abundance
\* vector or the result.
C7_NoUniqueReads ==
    (updates >= 1 /\ ValidParameters /\ HasAmbiguousRead /\ ~HasUniqueRead)
        => (NoNaN(a_j) /\ (Returned => NoNaN(abundance)))

\* C8: when the ambiguous-read masses of a pass sum to 0, the call does not
\* return a vector with NaN entries.
C8_ZeroAmbiguousMass ==
    (Returned /\ updates >= 1 /\ HasUniqueRead /\ SeriesSum(LastExpectation) = Zero)
        => NoNaN(abundance)

\* C9: a call with an empty assignment set ends in InvalidInput before any
\* partition or pass of the loop.
C9_EmptyInput ==
    (pc = "done" /\ Len(reads) = 0)
        => (outcome = "InvalidInput" /\ df = {} /\ updates = 0)

\* C10: a call with a negative noise_threshold or with max_iter = 0 ends in
\* InvalidInput and returns no vector.
C10_ParametersRejected ==
    (pc = "done" /\ Len(reads) > 0 /\ (RLt(noise_threshold, Zero) \/ max_iter = 0))
        => (outcome = "InvalidInput" /\ updates = 0)

\* what the call handed to its caller
CallResult ==
    [outcome |-> outcome,
     abundance |-> IF Returned THEN abundance ELSE EmptySeries,
     steps |-> IF Returned THEN steps ELSE 0]

\* C11: a call with verbose = true ends as the same call with verbose = false
\* does: the same vector, the same iteration count, and no error from the
\* progress line.
C11_VerboseNoEffect ==
    (pc = "done" /\ Len(reads) > 0 /\ ValidParameters /\ verbose)
        => CallResult = ExpectationMaximization(reads, classifications,
                            noise_threshold, max_iter, max_delta, FALSE)

\* the reads with two or more distinct categories, and those with exactly one
AmbiguousInputReads == {r \in InputReads : Cardinality(CategoriesOf(r)) >= 2}

UniqueInputReads == {r \in InputReads : Cardinality(CategoriesOf(r)) = 1}

\* exactly one ambiguous read, with two candidates, and at least one unique
\* read, all unique reads being assigned to one candidate: that candidate
FavouredCategories ==
    {c \in InputCategories :
        /\ Cardinality(AmbiguousInputReads) = 1
        /\ \A r \in AmbiguousInputReads :
              c \in CategoriesOf(r) /\ Cardinality(CategoriesOf(r)) = 2
        /\ UniqueInputReads # {}
        /\ \A r \in UniqueInputReads : CategoriesOf(r) = {c}}

\* C12: one ambiguous read with candidates {A, B} and k >= 1 unique reads, all
\* on A, with noise_threshold 0 and max_iter 1000: the call returns a vector
\* with a[A] > a[B] > 0 and a[A] + a[B] = 1.
C12_UniqueEvidenceFavoured ==
    (pc = "done" /\ noise_threshold = Zero /\ max_iter = 1000)
        => \A c \in FavouredCategories :
              /\ Returned
              /\ SeriesSum(abundance) = One
              /\ \A b \in InputCategories \ {c} :
                    RLt(abundance[b], abundance[c]) /\ RLt(Zero, abundance[b])

C12_Witness ==
    /\ pc = "done"
    /\ noise_threshold = Zero
    /\ max_iter = 1000
    /\ FavouredCategories # {}
    /\ Cardinality(UniqueInputReads) = 2
    /\ Cardinality(InputCategories) = 2
    /\ Returned

\* the caller's rows with every repeated (read, category) pair listed once
RECURSIVE ListedOnce(_)
ListedOnce(rows) ==
    IF rows = <<>> THEN <<>>
    ELSE LET front == ListedOnce(SubSeq(rows, 1, Len(rows) - 1))
             last == rows[Len(rows)]
         IN  IF \E i \in DOMAIN front : front[i] = last
             THEN front ELSE Append(front, last)

InputRows == [i \in DOMAIN reads |-> <<reads[i], classifications[i]>>]

\* C13: the call ends as the call on the same rows with every repeated
\* (read, category) pair listed once does: same vector, same iteration count.
C13_RepeatedPairsIgnored ==
    pc = "done"
        => LET once == ListedOnce(InputRows)
           IN  CallResult =
                  ExpectationMaximization([i \in DOMAIN once |-> once[i][1]],
                                          [i \in DOMAIN once |-> once[i][2]],
                                          noise_threshold, max_iter, max_delta,
                                          verbose)

C13_Witness ==
    /\ pc = "done"
    /\ Returned
    /\ updates >= 2
    /\ NoNaN(abundance)
    /\ AmbiguousInputReads # {}
    /\ \E i, j \in DOMAIN reads :
          /\ i # j
          /\ InputRows[i] = InputRows[j]
          /\ reads[i] \in UniqueInputReads

\* the sums the last pass divided by: the two denominators of line 55, the
\* renormalisation of line 56 and the renormalisation of line 60
LastUnnormalized ==
    LET a0 == LastExpectation
    IN  SeriesDiv(
           SeriesAdd(
              SeriesMul(SeriesDiv(a0, SeriesSum(a0)), Float(n_ambiguous)),
              SeriesMul(SeriesDiv(unique_genes, SeriesSum(unique_genes)),
                        Float(n_unique))),
           Float(n_ambiguous + n_unique))

LastZeroed ==
    [k \in DOMAIN LastMaximization |->
        IF RLt(LastMaximization[k], noise_threshold) THEN Zero
        ELSE LastMaximization[k]]

NoZeroDivision ==
    /\ SeriesSum(LastExpectation) # Zero
    /\ SeriesSum(unique_genes) # Zero
    /\ SeriesSum(LastUnnormalized) # Zero
    /\ SeriesSum(LastZeroed) # Zero

\* C14: the uniform start vector, and the vector at the end of every pass in
\* which no sum divided by was zero, has only non-negative entries and sums to 1.
C14_AbundanceIsDistribution ==
    /\ pc = "partition"
          => /\ SeriesSum(a_i) = One
             /\ \A k \in DOMAIN a_i : a_i[k] = <<1, Cardinality(InputCategories)>>
    /\ (pc = "converge" /\ NoZeroDivision)
          => /\ SeriesSum(a_j) = One
             /\ NoNaN(a_j)
             /\ \A k \in DOMAIN a_j : RLe(Zero, a_j[k])

C14_Witness ==
    /\ pc = "converge"
    /\ NoZeroDivision
    /\ updates = 2
    /\ \E k \in DOMAIN a_j : a_j[k] = Zero
    /\ a_j # a_i

\* the query names of the file, and the lines of one query
PafQueries == {paf_file[i] : i \in DOMAIN paf_file}

PafLinesOf(q) == {i \in DOMAIN paf_file : paf_file[i] = q}

\* C15: when the generator is exhausted it has yielded exactly one pair per
\* query name of the file, never a name twice, never a name that is not in the
\* file, and each pair carries all hits of its query.
C15_OnePairPerQuery ==
    paf_pc = "done"
        => /\ {paf_yielded[i][1] : i \in DOMAIN paf_yielded} = PafQueries
           /\ \A i, j \in DOMAIN paf_yielded :
                 paf_yielded[i][1] = paf_yielded[j][1] => i = j
           /\ \A i \in DOMAIN paf_yielded :
                 {paf_yielded[i][2][k] : k \in DOMAIN paf_yielded[i][2]}
                    = PafLinesOf(paf_yielded[i][1])

\* the chunks of n consecutive items, the last one padded with the caller's
\* fillvalue
PaddedChunks ==
    LET len == Len(grouper_iterable)
        count == (len + grouper_n - 1) \div grouper_n
    IN  [k \in 1..count |->
            [i \in 1..grouper_n |->
                IF (k - 1) * grouper_n + i <= len
                THEN grouper_iterable[(k - 1) * grouper_n + i]
                ELSE grouper_fillvalue]]

\* C16: for n >= 1 the tuples produced are the consecutive chunks of exactly n
\* items in input order, the last one padded with the caller's fillvalue.
C16_GrouperPadsWithFillvalue ==
    (grouper_pc = "done" /\ grouper_n >= 1) => grouper_out = PaddedChunks

\* the positions of the list, and the pairs of them adjacent in sorted order
ClusterValues == {cluster_x[i] : i \in DOMAIN cluster_x}

AdjacentPositions ==
    {p \in ClusterValues \X ClusterValues :
        p[1] < p[2] /\ ~\E w \in ClusterValues : p[1] < w /\ w < p[2]}

InOneInterval(u, v) ==
    \E k \in DOMAIN clustered : clustered[k][1] <= u /\ v <= clustered[k][2]

\* C17: two positions adjacent in sorted order are in different returned
\* intervals exactly when their distance is at least gap; the empty list gives
\* the empty result.
C17_GapIsMinimumDistance ==
    cluster_pc = "done"
        => /\ \A p \in AdjacentPositions :
                 ~InOneInterval(p[1], p[2]) <=> (p[2] - p[1] >= cluster_gap)
           /\ Len(cluster_x) = 0 => clustered = <<>>

\* p_r: the current abundance of all candidate categories of read r
ReadWeight(a, r) == SumOver([c \in CategoriesOf(r) |-> a[c]], CategoriesOf(r))

\* one unit of mass per ambiguous read, split over its candidates in
\* proportion to the abundances a
ProportionalMass(a) ==
    [c \in InputCategories |->
        LET rs == {r \in AmbiguousInputReads : c \in CategoriesOf(r)}
        IN  SumOver([r \in rs |-> RDiv(a[c], ReadWeight(a, r))], rs)]

\* C18: in every pass in which every ambiguous read has a positive weight
\* p_r, n[g] is the sum over the ambiguous reads r with candidate g of
\* a[g] / p_r, and the n[g] sum to the number of ambiguous reads.
C18_ExpectationProportional ==
    (pc = "converge"
        /\ \A r \in AmbiguousInputReads : RLt(Zero, ReadWeight(a_i, r)))
        => /\ LastExpectation = ProportionalMass(a_i)
           /\ SeriesSum(LastExpectation) = Float(Cardinality(AmbiguousInputReads))

\* unique_counts[g]: the number of unique reads assigned to g
UniqueCount(c) == Cardinality({r \in UniqueInputReads : CategoriesOf(r) = {c}})

\* the M-step formula on the masses n of the last pass, with the numbers of
\* distinct ambiguous and unique reads, renormalised
WeightedCombination ==
    LET n == LastExpectation
        na == Cardinality(AmbiguousInputReads)
        nu == Cardinality(UniqueInputReads)
        m == [c \in InputCategories |->
                 RDiv(RAdd(RMul(RDiv(n[c], SeriesSum(n)), Float(na)),
                           RMul(RDiv(Float(UniqueCount(c)), Float(nu)), Float(nu))),
                      Float(na + nu))]
    IN  [c \in InputCategories |-> RDiv(m[c], SeriesSum(m))]

\* the entries below the threshold set to zero, the rest rescaled to sum 1
ZeroedBelowThreshold(m) ==
    LET z == [c \in DOMAIN m |-> IF RLt(m[c], noise_threshold) THEN Zero ELSE m[c]]
    IN  [c \in DOMAIN m |-> RDiv(z[c], SeriesSum(z))]

\* C19: in every pass without a zero denominator the vector before de-noising
\* is the weighted combination of the ambiguous and the unique mass, weighted
\* by the numbers of distinct ambiguous and unique reads and renormalised.
C19_MaximizationFormula ==
    (pc = "converge" /\ NoZeroDivision)
        => /\ LastMaximization = WeightedCombination
           /\ a_j = ZeroedBelowThreshold(WeightedCombination)

C19_Witness ==
    /\ pc = "converge"
    /\ NoZeroDivision
    /\ updates = 2
    /\ HasRepeatedRow
    /\ Cardinality(AmbiguousInputReads) < Cardinality(ambiguous_reads)
    /\ Cardinality(UniqueInputReads) >= 1

\* C20: de-noising zeroes exactly the categories whose abundance after the
\* M-step is below noise_threshold and keeps the ratios of the others, and
\* every entry of a vector returned from the loop is 0 or >= noise_threshold.
C20_DeNoiseFloor ==
    /\ (pc = "converge" /\ ValidParameters /\ NoNaN(LastMaximization))
          => /\ \A k \in DOMAIN a_j :
                   a_j[k] = Zero <=> RLt(LastMaximization[k], noise_threshold)
             /\ \A k, l \in DOMAIN a_j :
                   (a_j[k] # Zero /\ a_j[l] # Zero)
                      => RMul(a_j[k], LastMaximization[l])
                            = RMul(a_j[l], LastMaximization[k])
    /\ (Returned /\ updates >= 1 /\ ValidParameters)
          => \A k \in DOMAIN abundance :
                abundance[k] = Zero \/ RLe(noise_threshold, abundance[k])

\* the stopping test of the pass that has just computed a_j from a_i, with
\* n_step the number of passes that were handed over so far
StopCondition == RLe(Delta(a_j, a_i), max_delta) \/ n_step >= max_iter

\* C21: a pass of the loop ends the loop exactly when its delta is
\* <= max_delta or the iteration counter has reached max_iter; a pass that
\* does not end the loop hands its vector over as the previous vector and
\* adds exactly 1 to the iteration counter.
C21_StoppingRule ==
    [][(pc = "converge" /\ ValidParameters)
          => IF StopCondition
             THEN pc' = "final" /\ a_i' = a_i /\ n_step' = n_step
             ELSE pc' = "update" /\ a_i' = a_j /\ n_step' = n_step + 1]_vars

\* the partition has been computed
Partitioned == pc \in {"update", "converge", "final"} \/ (pc = "done" /\ Returned)

\* the reads the code holds as unique and as ambiguous
CodeUniqueReads == UniqueReads(reads, df)

CodeAmbiguousReads == {reads[i] : i \in ambiguous_reads}

\* C22: after deduplication the code's unique reads are the reads with exactly
\* one distinct category and its ambiguous reads those with two or more, every
\* read being in exactly one class; unique_genes[c] is the number of unique
\* reads of category c (0 without one) and sums to the number of unique reads;
\* on the EM path n_unique + n_ambiguous is the number of distinct read ids.
C22_Partition ==
    Partitioned
        => /\ CodeUniqueReads = UniqueInputReads
           /\ CodeAmbiguousReads = AmbiguousInputReads
           /\ CodeUniqueReads \cap CodeAmbiguousReads = {}
           /\ CodeUniqueReads \cup CodeAmbiguousReads = InputReads
           /\ DOMAIN unique_genes = InputCategories
           /\ \A c \in InputCategories : unique_genes[c] = Float(UniqueCount(c))
           /\ SeriesSum(unique_genes) = Float(Cardinality(UniqueInputReads))
           /\ updates >= 1
                 => /\ n_unique = Cardinality(UniqueInputReads)
                    /\ n_ambiguous = Cardinality(AmbiguousInputReads)
                    /\ n_unique + n_ambiguous = Cardinality(InputReads)

C22_Witness ==
    /\ pc = "converge"
    /\ HasRepeatedRow
    /\ n_ambiguous >= 1
    /\ n_unique >= 1
    /\ \E c \in InputCategories : UniqueCount(c) = 0
    /\ \E i, j \in DOMAIN reads :
          i # j /\ InputRows[i] = InputRows[j] /\ reads[i] \in UniqueInputReads

\* C23: no step of the call changes the caller's reads and classifications,
\* and the previous vector a_i changes only where line 23 creates it and
\* where line 72 hands the new vector over: a pass of lines 50-60, with its
\* zeroing of a_j in place, leaves a_i as it was, so that delta compares the
\* new vector with the vector of the end of the preceding pass.
C23_InputsAndPreviousKept ==
    [][/\ pc # "idle" => (reads' = reads /\ classifications' = classifications)
       /\ pc = "update" => a_i' = a_i
       /\ pc \in {"partition", "final"} => a_i' = a_i
       /\ (pc = "converge" /\ a_i' # a_i) => (pc' = "update" /\ a_i' = a_j)]_vars

\* a second pass, begun with a_i and a_j bound to one object, has written
\* zeros into its new vector (the mask of line 59 was not empty), and the
\* previous vector still differs from the new one
C23_Witness ==
    /\ pc = "converge"
    /\ updates >= 2
    /\ a_i_ref # a_j_ref
    /\ NoNaN(a_j)
    /\ a_i # a_j
    /\ \E k \in DOMAIN a_j :
          /\ RLt(LastMaximization[k], noise_threshold)
          /\ a_j[k] = Zero

\* the ids from the root (tax_id 1) down to the queried id, along the parents
RECURSIVE PathFromRoot(_)
PathFromRoot(k) ==
    IF k = 1 THEN <<1>> ELSE Append(PathFromRoot(taxon_nodes[k].parent_tax_id), k)

\* the query is one the claim is about: a known id, every node of whose path
\* has an entry in the name table, and a supported name class
TaxonQueryInScope ==
    /\ taxon_tax_id \in DOMAIN taxon_nodes
    /\ \A i \in DOMAIN PathFromRoot(taxon_tax_id) :
          PathFromRoot(taxon_tax_id)[i] \in DOMAIN taxon_names
    /\ taxon_name_class \in SupportedNameClasses

TaxonEnded == taxon_pc \in {"exhausted", "KeyError"}

\* C24: a query on a known id with a supported name class ends without an
\* error after one item per node of the path from the root to the id, in
\* root-first order, each with the node's rank; the item of a node without a
\* name of the class is (rank, "").
C24_PathWithEmptyNames ==
    (TaxonEnded /\ TaxonQueryInScope)
        => LET path == PathFromRoot(taxon_tax_id)
           IN  /\ taxon_pc = "exhausted"
               /\ Len(taxon_yielded) = Len(path)
               /\ \A i \in DOMAIN path :
                     /\ taxon_yielded[i][1] = taxon_nodes[path[i]].rank
                     /\ taxon_name_class \notin DOMAIN taxon_names[path[i]]
                           => taxon_yielded[i][2] = EmptyString

\* the orders in which the list given to merge_intervals can be written
Reorderings ==
    {[i \in DOMAIN merge_blocks |-> merge_blocks[p[i]]] :
        p \in {q \in [DOMAIN merge_blocks -> DOMAIN merge_blocks] :
                  \A i, j \in DOMAIN merge_blocks : i # j => q[i] # q[j]}}

BlockInside(b, m) == m[1] <= b[1] /\ b[2] <= m[2]

C26_PositiveWithoutDeNoise ==
    (Returned /\ noise_threshold = Zero /\ HasUniqueRead /\ HasAmbiguousRead)
        => \A c \in InputCategories :
              c \in DOMAIN abundance /\ RLt(Zero, abundance[c])

\* such a call has returned after two passes, for an input with a category
\* that only unique reads hit and a category that only ambiguous reads hit
C26_Witness ==
    /\ Returned
    /\ noise_threshold = Zero
    /\ HasUniqueRead
    /\ HasAmbiguousRead
    /\ updates >= 2
    /\ \E c \in InputCategories : ReadsOf(c) \subseteq UniqueInputReads
    /\ \E c \in InputCategories : ReadsOf(c) \subseteq AmbiguousInputReads

\* the case of C26 and C27: no de-noising, a unique and an ambiguous read
PlainMixedInput == noise_threshold = Zero /\ HasUniqueRead /\ HasAmbiguousRead

\* C27: with noise_threshold = 0, a unique read and an ambiguous read, every
\* pass computes the vector the first pass computed from the uniform start, a
\* second pass therefore has delta 0, and the iteration count a call returns
\* is 0 or 1, whatever max_iter is.
C27_SecondPassRepeatsFirst ==
    /\ (pc = "converge" /\ PlainMixedInput)
          => a_j = EMUpdate(UniformAbundance(g), classifications, ambiguous_reads,
                            unique_genes, g, n_ambiguous, n_unique, noise_threshold)
    /\ (pc = "converge" /\ PlainMixedInput /\ updates >= 2)
          => (a_j = a_i /\ Delta(a_j, a_i) = Zero)
    /\ (Returned /\ PlainMixedInput) => (steps \in {0, 1} /\ updates <= 2)

\* a call with max_iter = 1000 whose first delta was above max_delta has
\* returned after its second pass
C27_Witness ==
    /\ Returned
    /\ PlainMixedInput
    /\ max_iter = 1000
    /\ updates = 2
    /\ steps = 1
    /\ Len(trace) = 1
    /\ ~RLe(trace[1], max_delta)

\* the call of load_centrifuge and load_diamond2 (taxonomy.py, lines 393-395
\* and 434-436): deduplicated (read, category) pairs,
\* noise_threshold = 1 / (number of pairs), verbose = True and the default
\* max_iter
LoaderCall ==
    /\ Len(reads) > 0
    /\ ~HasRepeatedRow
    /\ noise_threshold = RDiv(One, Float(Len(reads)))
    /\ max_iter = 1000
    /\ verbose

\* C28: in a call made by the loaders on an input with a unique and an
\* ambiguous read, the vector at the end of every pass, and the vector
\* returned, sums to 1 and has no NaN entry.
C28_LoaderAbundanceDefined ==
    (LoaderCall /\ HasUniqueRead /\ HasAmbiguousRead)
        => /\ pc = "converge" => (NoNaN(a_j) /\ SeriesSum(a_j) = One)
           /\ Returned => (NoNaN(abundance) /\ SeriesSum(abundance) = One)

\* the L1 distance of two vectors over the same categories
L1Distance(x, y) ==
    SumOver([k \in DOMAIN x |-> RAbs(RSub(x[k], y[k]))], DOMAIN x)

\* C29: when a call on the EM path returns an iteration count below max_iter,
\* the L1 distance between the vector of its last pass and the vector that
\* pass started from is <= max_delta, and the returned vector is the one the
\* last pass computed.
C29_EarlyReturnConverged ==
    (Returned /\ updates >= 1 /\ steps < max_iter)
        => /\ RLe(L1Distance(a_j, a_i), max_delta)
           /\ delta = L1Distance(a_j, a_i)
           /\ abundance = a_j
           /\ abundance = EMUpdate(a_i, classifications, ambiguous_reads,
                                   unique_genes, g, n_ambiguous, n_unique,
                                   noise_threshold)

\* such a return, with a returned vector that differs from the previous one
C29_Witness ==
    /\ Returned
    /\ updates >= 1
    /\ steps < max_iter
    /\ NoNaN(abundance)
    /\ abundance # a_i
    /\ RLt(Zero, delta)

\* the reads of the table with a category at the chosen rank, a read's
\* distinct categories, and the reads that hit a category
LoadReads == {load_df[i][1] : i \in {j \in DOMAIN load_df : load_df[j][2] # NoLevel}}

LoadCategoriesOf(r) ==
    {load_df[i][2] : i \in {j \in DOMAIN load_df :
                               load_df[j][1] = r /\ load_df[j][2] # NoLevel}}

LoadCategories == UNION {LoadCategoriesOf(r) : r \in LoadReads}

EvenShare(c) ==
    LET rs == {r \in LoadReads : c \in LoadCategoriesOf(r)}
    IN  SumOver([r \in rs |-> RDiv(One, Float(Cardinality(LoadCategoriesOf(r))))], rs)

\* C30: without EM the loaders return one value per category of the table,
\* the sum of 1/k over the reads that hit it, k being the read's number of
\* distinct categories; the values sum to the number of distinct reads and are
\* in descending order.
C30_EvenSplit ==
    load_pc = "done"
        => /\ {load_result[i][1] : i \in DOMAIN load_result} = LoadCategories
           /\ Len(load_result) = Cardinality(LoadCategories)
           /\ \A i \in DOMAIN load_result :
                 load_result[i][2] = EvenShare(load_result[i][1])
           /\ SumOver([i \in DOMAIN load_result |-> load_result[i][2]],
                      DOMAIN load_result) = Float(Cardinality(LoadReads))
           /\ \A i, j \in DOMAIN load_result :
                 i < j => RLe(load_result[j][2], load_result[i][2])

\* a table with a repeated pair and a read of two categories, each of which
\* gets a share below 1, has been loaded
C30_Witness ==
    /\ load_pc = "done"
    /\ Len(lvl_df) < Len(WithLevel(load_df))
    /\ \E r \in LoadReads : Cardinality(LoadCategoriesOf(r)) = 2
    /\ \E i \in DOMAIN load_result : RLt(load_result[i][2], One)

====
